---- MODULE Spec2Model ----
(***************************************************************************)
(* Model of src/form_processor.py: the field extraction of FormProcessor   *)
(* (regular-expression rules applied to OCR text), process_file and the    *)
(* two-table store of DatabaseManager.                                     *)
(*                                                                         *)
(* Text is a sequence of symbols.  A symbol is one character (" ", "\n",   *)
(* ":", a decimal digit) or a run of other characters that no pattern of   *)
(* the program splits (a label literal such as "Patient Name", a word such *)
(* as "Jane").  The words are chosen so that no label literal and neither  *)
(* "YES" nor "NO" occurs in a text except as its own symbol; 'YESTERDAY'   *)
(* is <<"YES", "TERDAY">> and 'NONE' is <<"NO", "NE">>.                    *)
(***************************************************************************)
EXTENDS Integers, Sequences, FiniteSets, TLC

VARIABLES pc, doc, text, data, err, output_json, patients, forms_data, calls, returned

vars == <<pc, doc, text, data, err, output_json, patients, forms_data, calls, returned>>

(***************************************************************************)
(* Bounds of the model.                                                    *)
(***************************************************************************)
MaxContLines == 2   \* lines of OCR text after the first line
MaxPages == 2       \* pages of a PDF document
MaxCalls == 2       \* insert_data calls on one database

(***************************************************************************)
(* Characters.                                                             *)
(***************************************************************************)
NL == "\n"

IsSpace(c) == c \in {" ", NL}

DigitVal == [c \in {"0", "1", "2", "3", "4", "5", "6", "7", "8", "9"} |->
               CASE c = "0" -> 0 [] c = "1" -> 1 [] c = "2" -> 2 [] c = "3" -> 3
                 [] c = "4" -> 4 [] c = "5" -> 5 [] c = "6" -> 6 [] c = "7" -> 7
                 [] c = "8" -> 8 [] c = "9" -> 9]

IsDigit(c) == c \in DOMAIN DigitVal

Min(S) == CHOOSE m \in S : \A x \in S : m <= x

(***************************************************************************)
(* Field values.  Python's None, int and str are kept apart by kind.       *)
(***************************************************************************)
None == [kind |-> "null", int |-> 0, str |-> <<>>]

IntValue(n) == [kind |-> "int", int |-> n, str |-> <<>>]

StrValue(s) == [kind |-> "str", int |-> 0, str |-> s]

ValueError == [kind |-> "ValueError", int |-> 0, str |-> <<>>]

(***************************************************************************)
(* FormProcessor.__init__: the two name lists, and the label each name     *)
(* yields under name.replace('_', ' ').title().                            *)
(***************************************************************************)
difficulty_tasks ==
  {"bending_or_stooping", "putting_on_shoes", "sleeping", "standing_for_an_hour",
   "stairs", "walking_through_store", "driving", "preparing_meal", "yard_work",
   "picking_up_items"}

pain_symptoms == {"pain", "numbness", "tingling", "burning", "tightness"}

Title ==
  [bending_or_stooping |-> "Bending Or Stooping",
   putting_on_shoes |-> "Putting On Shoes",
   sleeping |-> "Sleeping",
   standing_for_an_hour |-> "Standing For An Hour",
   stairs |-> "Stairs",
   walking_through_store |-> "Walking Through Store",
   driving |-> "Driving",
   preparing_meal |-> "Preparing Meal",
   yard_work |-> "Yard Work",
   picking_up_items |-> "Picking Up Items",
   pain |-> "Pain",
   numbness |-> "Numbness",
   tingling |-> "Tingling",
   burning |-> "Burning",
   tightness |-> "Tightness"]

(***************************************************************************)
(* Patterns.  Every pattern of the program is a label literal, a colon and *)
(* one capture group:                                                      *)
(*   pre    TRUE when \s* stands between the label and the colon           *)
(*   post   TRUE when \s* stands between the colon and the group           *)
(*   group  "line"     any characters to the end of the line (greedy)      *)
(*          "lazy"     DOTALL, as few characters as possible up to a       *)
(*                     newline that a non-whitespace character follows     *)
(*          "rating"   one character of 0-5                                *)
(*          "symptom"  one or two characters of 0-9 (greedy)               *)
(*          "digits"   one or more digits (greedy)                         *)
(*          "yesno"    the literal YES or the literal NO                   *)
(***************************************************************************)
Pattern(label, pre, post, group) ==
  [label |-> label, pre |-> pre, post |-> post, group |-> group]

\* greedy \s* from position i: the first position that holds no whitespace
SkipSpace(t, i) == Min({j \in i..(Len(t) + 1) : j = Len(t) + 1 \/ ~IsSpace(t[j])})

\* the greedy line group from position i: it ends where the line ends
LineEnd(t, i) == Min({j \in i..(Len(t) + 1) : j = Len(t) + 1 \/ t[j] = NL})

\* the greedy digits group from position i: the first position that holds no digit
DigitsEnd(t, i) == Min({j \in i..(Len(t) + 1) : j = Len(t) + 1 \/ ~IsDigit(t[j])})

\* the positions at which the lookahead of the lazy group succeeds
Terminators(t) ==
  {e \in 1..Len(t) : t[e] = NL /\ e + 1 <= Len(t) /\ ~IsSpace(t[e + 1])}

NoSpan == <<0, 0>>

\* Each capture group tried at position k: its span <<from, to+1>>, or NoSpan.

\* the group of any characters to the end of the line
LineGroup(t, k) == <<k, LineEnd(t, k)>>

\* LazyGroup with the group made greedy: it stops at the last terminator
LazyGroupGreedy(t, k) ==
  IF \E e \in Terminators(t) : e >= k
    THEN <<k, CHOOSE e \in Terminators(t) : \A x \in Terminators(t) : x <= e>>
    ELSE NoSpan

\* the lazy DOTALL group: it stops at the first terminator
LazyGroup(t, k) ==
  IF \E e \in Terminators(t) : e >= k
    THEN <<k, Min({e \in Terminators(t) : e >= k})>>
    ELSE NoSpan

\* RatingGroup with the character class widened to 0-9
RatingGroupAnyDigit(t, k) ==
  IF k <= Len(t) /\ IsDigit(t[k]) THEN <<k, k + 1>> ELSE NoSpan

\* one character of 0-5
RatingGroup(t, k) ==
  IF k <= Len(t) /\ t[k] \in {"0", "1", "2", "3", "4", "5"} THEN <<k, k + 1>> ELSE NoSpan

\* one or two characters of 0-9, two when there are two
SymptomGroup(t, k) ==
  IF k <= Len(t) /\ IsDigit(t[k])
    THEN IF k + 1 <= Len(t) /\ IsDigit(t[k + 1]) THEN <<k, k + 2>> ELSE <<k, k + 1>>
    ELSE NoSpan

\* one or more digits, as many as there are
DigitsGroup(t, k) ==
  IF k <= Len(t) /\ IsDigit(t[k]) THEN <<k, DigitsEnd(t, k)>> ELSE NoSpan

\* the literal YES or the literal NO, whatever follows it
YesNoGroup(t, k) ==
  IF k <= Len(t) /\ t[k] \in {"YES", "NO"} THEN <<k, k + 1>> ELSE NoSpan

GroupAt(group, t, k) ==
  CASE group = "line" -> LineGroup(t, k)
    [] group = "lazy" -> LazyGroup(t, k)
    [] group = "rating" -> RatingGroup(t, k)
    [] group = "symptom" -> SymptomGroup(t, k)
    [] group = "digits" -> DigitsGroup(t, k)
    [] group = "yesno" -> YesNoGroup(t, k)

\* the pattern tried with its label at position i
MatchAt(p, t, i) ==
  IF t[i] # p.label THEN NoSpan
  ELSE LET j == IF p.pre THEN SkipSpace(t, i + 1) ELSE i + 1
       IN IF j > Len(t) \/ t[j] # ":" THEN NoSpan
          ELSE GroupAt(p.group, t, IF p.post THEN SkipSpace(t, j + 1) ELSE j + 1)

\* re.search: the match at the leftmost position that has one
re_search(p, t) ==
  LET hits == {i \in 1..Len(t) : MatchAt(p, t, i) # NoSpan}
  IN IF hits = {} THEN NoSpan ELSE MatchAt(p, t, Min(hits))

\* match.group(1)
Group1(t, m) == SubSeq(t, m[1], m[2] - 1)

\* str.strip()
Strip(s) ==
  LET keep == {i \in 1..Len(s) : ~IsSpace(s[i])}
  IN IF keep = {} THEN <<>>
     ELSE SubSeq(s, Min(keep), CHOOSE m \in keep : \A x \in keep : x <= m)

\* int() refuses a digit string longer than sys.int_info.default_max_str_digits
IntMaxStrDigits == 4300

RECURSIVE DecimalValue(_)
DecimalValue(s) ==
  IF s = <<>> THEN 0
  ELSE 10 * DecimalValue(SubSeq(s, 1, Len(s) - 1)) + DigitVal[s[Len(s)]]

int(s) == IF Len(s) > IntMaxStrDigits THEN ValueError ELSE IntValue(DecimalValue(s))

_find_value(pattern, t) ==
  LET match == re_search(pattern, t)
  IN IF match # NoSpan THEN StrValue(Strip(Group1(t, match))) ELSE None

_find_numeric_value(pattern, t) ==
  LET match == re_search(pattern, t)
  IN IF match # NoSpan THEN int(Group1(t, match)) ELSE None

_find_checkbox(pattern, t) ==
  LET match == re_search(pattern, t)
  IN IF match # NoSpan THEN StrValue(Group1(t, match)) ELSE None

(***************************************************************************)
(* The extractors of FormProcessor, one per group of the record.           *)
(***************************************************************************)
_extract_patient_info(t) ==
  [patient_name |-> _find_value(Pattern("Patient Name", TRUE, TRUE, "line"), t),
   dob |-> _find_value(Pattern("DOB", TRUE, TRUE, "line"), t)]

_extract_treatment_info(t) ==
  [date |-> _find_value(Pattern("Date", TRUE, TRUE, "line"), t),
   injection |-> _find_checkbox(Pattern("INJECTION", TRUE, TRUE, "yesno"), t),
   exercise_therapy |->
     _find_checkbox(Pattern("Exercise Therapy", TRUE, TRUE, "yesno"), t)]

_extract_difficulty_ratings(t) ==
  [task \in difficulty_tasks |->
     _find_numeric_value(Pattern(Title[task], FALSE, TRUE, "rating"), t)]

_extract_patient_changes(t) ==
  [since_last_treatment |->
     _find_value(Pattern("Patient changes since last treatment", FALSE, FALSE, "lazy"), t),
   since_start_of_treatment |->
     _find_value(Pattern("Patient changes since the start of treatment",
                         FALSE, FALSE, "lazy"), t),
   last_3_days |->
     _find_value(Pattern("Describe any functional changes within the last three days (good or bad)",
                         FALSE, FALSE, "line"), t)]

\* _extract_pain_symptoms keeping only the symptoms whose pattern matched
_extract_pain_symptoms_matched_only(t) ==
  [symptom \in {sy \in pain_symptoms :
                  re_search(Pattern(Title[sy], FALSE, TRUE, "symptom"), t) # NoSpan} |->
     _find_numeric_value(Pattern(Title[symptom], FALSE, TRUE, "symptom"), t)]

_extract_pain_symptoms(t) ==
  [symptom \in pain_symptoms |->
     _find_numeric_value(Pattern(Title[symptom], FALSE, TRUE, "symptom"), t)]

_extract_ma_data(t) ==
  [blood_pressure |-> _find_value(Pattern("Blood Pressure", TRUE, TRUE, "line"), t),
   hr |-> _find_numeric_value(Pattern("HR", TRUE, TRUE, "digits"), t),
   weight |-> _find_numeric_value(Pattern("Weight", TRUE, TRUE, "digits"), t),
   height |-> _find_value(Pattern("Height", TRUE, TRUE, "line"), t),
   spo2 |-> _find_numeric_value(Pattern("SpO2", TRUE, TRUE, "digits"), t),
   temperature |-> _find_value(Pattern("Temperature", TRUE, TRUE, "line"), t),
   blood_glucose |-> _find_numeric_value(Pattern("Blood Glucose", TRUE, TRUE, "digits"), t),
   respirations |-> _find_numeric_value(Pattern("Respirations", TRUE, TRUE, "digits"), t)]

\* the dict display of parse_ocr_output, before any exception is looked at
Groups(t) ==
  [patient_details |-> _extract_patient_info(t),
   treatment_details |-> _extract_treatment_info(t),
   difficulty_ratings |-> _extract_difficulty_ratings(t),
   patient_changes |-> _extract_patient_changes(t),
   pain_symptoms |-> _extract_pain_symptoms(t),
   medical_assistant_data |-> _extract_ma_data(t)]

\* an exception raised while a value of the display is computed leaves the call
Raised(groups) == \E g \in DOMAIN groups : \E k \in DOMAIN groups[g] : groups[g][k] = ValueError

parse_ocr_output(t) == LET groups == Groups(t) IN IF Raised(groups) THEN ValueError ELSE groups

(***************************************************************************)
(* Documents.  A document is what the file system and the OCR engine make  *)
(* of a path: whether it exists, whether its name ends in .pdf, what its   *)
(* bytes are, and the text image_to_string reads on each of its pages.     *)
(***************************************************************************)
Labels ==
  {"Patient Name", "DOB", "Date", "INJECTION", "Exercise Therapy",
   "Patient changes since last treatment",
   "Patient changes since the start of treatment",
   "Describe any functional changes within the last three days (good or bad)",
   "Blood Pressure", "HR", "Weight", "Height", "SpO2", "Temperature",
   "Blood Glucose", "Respirations"}
  \cup {Title[n] : n \in difficulty_tasks \cup pain_symptoms}

Seps == {<<":", " ">>, <<" ", ":", " ">>}

Values ==
  {<<>>, <<"3">>, <<"7">>, <<"3", "7">>, <<"1", "2", "3">>,
   <<"YES">>, <<"NO">>, <<"MAYBE">>, <<"YES", "TERDAY">>, <<"NO", "NE">>,
   <<"feeling", " ", "better">>}

ContLines ==
  {<<>>, <<"sleeping", " ", "more">>, <<" ", "sleeping", " ", "more">>,
   <<"Date", " ", ":", " ", "2024-01-01">>}

FirstLines == {<<>>} \cup {<<l>> \o s \o v : l \in Labels, s \in Seps, v \in Values}

RECURSIVE Conts(_)
Conts(n) ==
  IF n = 0 THEN {<<>>}
  ELSE Conts(n - 1) \cup {c \o <<NL>> \o l : c \in Conts(n - 1), l \in ContLines}

\* a digit run one longer than int() converts, after each label that takes digits
LongDigitPages ==
  {<<l, ":", " ">> \o [i \in 1..(IntMaxStrDigits + 1) |-> "9"] :
     l \in {"HR", "Weight", "SpO2", "Blood Glucose", "Respirations"}}

ImagePages == {f \o c : f \in FirstLines, c \in Conts(MaxContLines)} \cup LongDigitPages

PdfPages == {<<"Stairs", ":">>, <<" ", "3", NL>>, <<"Date", ":", "2024-01-01">>}

RECURSIVE PageSeqs(_)
PageSeqs(n) ==
  IF n = 0 THEN {<<>>}
  ELSE PageSeqs(n - 1) \cup {ps \o <<p>> : ps \in PageSeqs(n - 1), p \in PdfPages}

Document(exists, pdf_name, content, pages) ==
  [exists |-> exists, pdf_name |-> pdf_name, content |-> content, pages |-> pages]

Docs ==
  {Document(FALSE, n, "none", <<>>) : n \in BOOLEAN}
  \cup {Document(TRUE, n, "other", <<>>) : n \in BOOLEAN}
  \cup {Document(TRUE, FALSE, "image", <<p>>) : p \in ImagePages}
  \cup {Document(TRUE, TRUE, "image", <<p>>) : p \in PdfPages}
  \cup {Document(TRUE, n, "pdf", ps) : n \in BOOLEAN, ps \in PageSeqs(MaxPages)}

(***************************************************************************)
(* FormProcessor.extract_text: the exception it raises, or the text.       *)
(***************************************************************************)
RECURSIVE Concat(_)
Concat(pages) == IF pages = <<>> THEN <<>> ELSE Head(pages) \o Concat(Tail(pages))

Outcome(e, t) == [err |-> e, text |-> t]

\* extract_text returning the empty text where it should raise
extract_text_empty_on_error(d) ==
  IF d.exists /\ d.pdf_name /\ d.content = "pdf" THEN Outcome("none", Strip(Concat(d.pages)))
  ELSE IF d.exists /\ ~d.pdf_name /\ d.content = "image"
    THEN Outcome("none", Strip(d.pages[1]))
    ELSE Outcome("none", <<>>)

extract_text(d) ==
  IF ~d.exists THEN Outcome("FileNotFoundError", <<>>)
  ELSE IF d.pdf_name
    THEN IF d.content # "pdf" THEN Outcome("PDFPageCountError", <<>>)
         ELSE Outcome("none", Strip(Concat(d.pages)))
    ELSE IF d.content # "image" THEN Outcome("UnidentifiedImageError", <<>>)
         ELSE Outcome("none", Strip(d.pages[1]))

(***************************************************************************)
(* json.dump / json.dumps: None renders as null, an int as a number, a str *)
(* as a string.                                                            *)
(***************************************************************************)
JsonValue(v) ==
  CASE v.kind = "null" -> [json |-> "null", number |-> 0, string |-> <<>>]
    [] v.kind = "int" -> [json |-> "number", number |-> v.int, string |-> <<>>]
    [] v.kind = "str" -> [json |-> "string", number |-> 0, string |-> v.str]

json_dumps(d) == [g \in DOMAIN d |-> [k \in DOMAIN d[g] |-> JsonValue(d[g][k])]]

(***************************************************************************)
(* DatabaseManager.  _create_tables leaves existing tables as they are; an *)
(* AUTOINCREMENT id is one more than the ids given so far.                 *)
(***************************************************************************)
PatientRow(id, name, dob) == [id |-> id, name |-> name, dob |-> dob]

FormRow(id, patient_id, form_json) ==
  [id |-> id, patient_id |-> patient_id, form_json |-> form_json]

lastrowid(table) == Len(table) + 1

\* insert_data reusing the row of a patient it has already stored
insert_data_reusing_patient(d) ==
  LET same == {j \in 1..Len(patients) :
                 /\ patients[j].name = d.patient_details.patient_name
                 /\ patients[j].dob = d.patient_details.dob}
      patient_id == IF same = {} THEN lastrowid(patients) ELSE patients[Min(same)].id
  IN /\ patients' = IF same = {}
                      THEN Append(patients,
                                  PatientRow(patient_id, d.patient_details.patient_name,
                                             d.patient_details.dob))
                      ELSE patients
     /\ forms_data' = Append(forms_data,
                             FormRow(lastrowid(forms_data), patient_id, json_dumps(d)))
     /\ returned' = patient_id

insert_data(d) ==
  LET patient_id == lastrowid(patients)
  IN /\ patients' = Append(patients,
                           PatientRow(patient_id, d.patient_details.patient_name,
                                      d.patient_details.dob))
     /\ forms_data' = Append(forms_data,
                             FormRow(lastrowid(forms_data), patient_id, json_dumps(d)))
     /\ returned' = patient_id

(***************************************************************************)
(* process_file, one action per statement.                                 *)
(***************************************************************************)
NoData == <<>>

NoFile == <<>>

Init ==
  /\ pc = "start"
  /\ doc \in Docs
  /\ text = <<>>
  /\ data = NoData
  /\ err = "none"
  /\ output_json = NoFile
  /\ patients = <<>>
  /\ forms_data = <<>>
  /\ calls = 0
  /\ returned = 0

\* processor = FormProcessor(); db = DatabaseManager()
Construct ==
  /\ pc = "start"
  /\ pc' = "extract_text"
  /\ UNCHANGED <<doc, text, data, err, output_json, patients, forms_data, calls, returned>>

\* text = processor.extract_text(input_path)
ExtractText ==
  /\ pc = "extract_text"
  /\ LET r == extract_text(doc)
     IN /\ err' = r.err
        /\ text' = r.text
        /\ pc' = IF r.err = "none" THEN "parse_ocr_output" ELSE "raised"
  /\ UNCHANGED <<doc, data, output_json, patients, forms_data, calls, returned>>

\* data = processor.parse_ocr_output(text)
ParseOcrOutput ==
  /\ pc = "parse_ocr_output"
  /\ LET r == parse_ocr_output(text)
     IN IF r = ValueError
          THEN /\ err' = "ValueError"
               /\ pc' = "raised"
               /\ data' = data
          ELSE /\ data' = r
               /\ pc' = "json_dump"
               /\ err' = err
  /\ UNCHANGED <<doc, text, output_json, patients, forms_data, calls, returned>>

\* with open(output_json, 'w') as f: json.dump(data, f, indent=2)
JsonDump ==
  /\ pc = "json_dump"
  /\ output_json' = json_dumps(data)
  /\ pc' = "insert_data"
  /\ UNCHANGED <<doc, text, data, err, patients, forms_data, calls, returned>>

\* db.insert_data(data)
InsertData ==
  /\ pc = "insert_data"
  /\ insert_data(data)
  /\ calls' = calls + 1
  /\ pc' = "done"
  /\ UNCHANGED <<doc, text, data, err, output_json>>

Next == Construct \/ ExtractText \/ ParseOcrOutput \/ JsonDump \/ InsertData

Spec == Init /\ [][Next]_vars

(***************************************************************************)
(* A caller that holds one DatabaseManager and calls insert_data with the  *)
(* records of several documents.                                           *)
(***************************************************************************)
DbTexts ==
  {<<>>} \cup {<<l>> \o s \o v : l \in {"Patient Name", "DOB"}, s \in Seps, v \in Values}

DbRecords == {parse_ocr_output(t) : t \in DbTexts}

InitDb ==
  /\ pc = "db"
  /\ doc = Document(FALSE, FALSE, "none", <<>>)
  /\ text = <<>>
  /\ data = NoData
  /\ err = "none"
  /\ output_json = NoFile
  /\ patients = <<>>
  /\ forms_data = <<>>
  /\ calls = 0
  /\ returned = 0

InsertCall ==
  /\ pc = "db"
  /\ calls < MaxCalls
  /\ \E d \in DbRecords :
       /\ data' = d
       /\ insert_data(d)
  /\ calls' = calls + 1
  /\ UNCHANGED <<pc, doc, text, err, output_json>>

NextDb == InsertCall

SpecDb == InitDb /\ [][NextDb]_vars

(***************************************************************************)
(* The record schema of the specification: the six groups and the field    *)
(* names each declares.                                                    *)
(***************************************************************************)
Schema ==
  [patient_details |-> {"patient_name", "dob"},
   treatment_details |-> {"date", "injection", "exercise_therapy"},
   difficulty_ratings |->
     {"bending_or_stooping", "putting_on_shoes", "sleeping", "standing_for_an_hour",
      "stairs", "walking_through_store", "driving", "preparing_meal", "yard_work",
      "picking_up_items"},
   patient_changes |-> {"since_last_treatment", "since_start_of_treatment", "last_3_days"},
   pain_symptoms |-> {"pain", "numbness", "tingling", "burning", "tightness"},
   medical_assistant_data |->
     {"blood_pressure", "hr", "weight", "height", "spo2", "temperature",
      "blood_glucose", "respirations"}]

\* parse_ocr_output has returned a record, which data holds
Parsed == pc \in {"json_dump", "insert_data", "done"}

\* C1: the record parse_ocr_output returns has exactly the six groups, and each
\* group has exactly its declared field names as keys (2, 3, 10, 3, 5 and 8 of
\* them), each holding null, an integer or a string; no key is ever missing.
C1_EveryKeyPresent ==
  Parsed =>
    /\ DOMAIN data = DOMAIN Schema
    /\ \A g \in DOMAIN Schema :
         /\ DOMAIN data[g] = Schema[g]
         /\ \A k \in Schema[g] : data[g][k].kind \in {"null", "int", "str"}
    /\ Cardinality(DOMAIN data["patient_details"]) = 2
    /\ Cardinality(DOMAIN data["treatment_details"]) = 3
    /\ Cardinality(DOMAIN data["difficulty_ratings"]) = 10
    /\ Cardinality(DOMAIN data["patient_changes"]) = 3
    /\ Cardinality(DOMAIN data["pain_symptoms"]) = 5
    /\ Cardinality(DOMAIN data["medical_assistant_data"]) = 8

\* the empty text has been parsed: every field of every group is null
C1_Witness ==
  /\ pc = "json_dump"
  /\ text = <<>>
  /\ \A g \in DOMAIN Schema : \A k \in Schema[g] : data[g][k] = None

\* C9: each difficulty rating of the returned record is null or an integer in
\* 0..5, and each pain symptom is null or an integer in 0..99.
C9_ValuesInRange ==
  Parsed =>
    /\ \A k \in DOMAIN data["difficulty_ratings"] :
         LET v == data["difficulty_ratings"][k]
         IN v = None \/ (v.kind = "int" /\ v.int \in 0..5)
    /\ \A k \in DOMAIN data["pain_symptoms"] :
         LET v == data["pain_symptoms"][k]
         IN v = None \/ (v.kind = "int" /\ v.int \in 0..99)

\* 'Pain: 123' has been parsed, and the symptom is 12
C9_Witness ==
  /\ Parsed
  /\ text = <<"Pain", ":", " ", "1", "2", "3">>
  /\ data["pain_symptoms"]["pain"] = IntValue(12)

\* a document-level error: the path does not exist, or the file is neither an
\* image nor a PDF
DocumentError == ~doc.exists \/ doc.content \notin {"image", "pdf"}

\* C8: when the path does not exist or the file is neither an image nor a PDF,
\* process_file ends with the exception of extract_text: no record is produced,
\* no output file is written and no row is inserted in either table.
C8_DocumentErrorAborts ==
  DocumentError =>
    /\ pc \in {"start", "extract_text", "raised"}
    /\ pc = "raised" => err \in {"FileNotFoundError", "PDFPageCountError",
                                 "UnidentifiedImageError"}
    /\ DOMAIN data = {}
    /\ DOMAIN output_json = {}
    /\ patients = <<>>
    /\ forms_data = <<>>

\* process_file has ended with the exception raised for a missing path
C8_Witness ==
  /\ pc = "raised"
  /\ ~doc.exists
  /\ err = "FileNotFoundError"
  /\ DOMAIN output_json = {}

\* C10: after any number of insert_data calls each table has one row per call,
\* every forms_data row names an existing patients row, every patients row is
\* named by exactly one forms_data row, and the last call returned the id of the
\* patients row it inserted.
C10_OneRowPairPerCall ==
  /\ Len(patients) = calls
  /\ Len(forms_data) = calls
  /\ \A i \in 1..Len(forms_data) :
       \E j \in 1..Len(patients) : patients[j].id = forms_data[i].patient_id
  /\ \A j \in 1..Len(patients) :
       Cardinality({i \in 1..Len(forms_data) :
                      forms_data[i].patient_id = patients[j].id}) = 1
  /\ \A i, j \in 1..Len(patients) : patients[i].id = patients[j].id => i = j
  /\ calls > 0 => returned = patients[Len(patients)].id

\* the same patient has been inserted twice, and has two rows
C10_Witness ==
  /\ calls = 2
  /\ Len(patients) = 2
  /\ patients[1].name = StrValue(<<"feeling", " ", "better">>)
  /\ patients[1].name = patients[2].name
  /\ patients[1].dob = patients[2].dob
  /\ returned = 2

(***************************************************************************)
(* What is written in a text, read without the patterns: where a label and *)
(* its colon stand, and the token and the line that follow.                *)
(***************************************************************************)
\* the position of the colon of the leftmost label that has one, or 0
ColonOf(label, pre, t) ==
  LET colon(i) == IF pre THEN SkipSpace(t, i + 1) ELSE i + 1
      hits == {i \in 1..Len(t) : t[i] = label /\ colon(i) <= Len(t) /\ t[colon(i)] = ":"}
  IN IF hits = {} THEN 0 ELSE colon(Min(hits))

\* the run of non-whitespace symbols that follows the colon at c
TokenAfter(t, c) ==
  LET k == SkipSpace(t, c + 1)
      stop == Min({j \in k..(Len(t) + 1) : j = Len(t) + 1 \/ IsSpace(t[j])})
  IN SubSeq(t, k, stop - 1)

\* the rest of the line of the colon at c
RestOfLine(t, c) ==
  SubSeq(t, c + 1, Min({j \in (c + 1)..(Len(t) + 1) : j = Len(t) + 1 \/ t[j] = NL}) - 1)

AllDigits(tok) == tok # <<>> /\ \A i \in 1..Len(tok) : IsDigit(tok[i])

\* the integer a token of at most width digits and at most max denotes, else null
Bounded(tok, width, max) ==
  IF AllDigits(tok) /\ Len(tok) <= width /\ DecimalValue(tok) <= max
    THEN IntValue(DecimalValue(tok)) ELSE None

\* C2: where the label of a bounded numeric field is written, the field is the
\* integer written after it when that is one digit 0-5 (a difficulty task) or at
\* most two digits (a pain symptom), and null when what is written is anything
\* else ('Stairs: 7', 'Stairs: 37', 'Pain: 123').
C2_WidthViolationIsNull ==
  Parsed =>
    /\ \A task \in difficulty_tasks :
         LET c == ColonOf(Title[task], FALSE, text)
         IN c # 0 => data["difficulty_ratings"][task] = Bounded(TokenAfter(text, c), 1, 5)
    /\ \A symptom \in pain_symptoms :
         LET c == ColonOf(Title[symptom], FALSE, text)
         IN c # 0 => data["pain_symptoms"][symptom] = Bounded(TokenAfter(text, c), 2, 99)

CheckboxLabel == [injection |-> "INJECTION", exercise_therapy |-> "Exercise Therapy"]

\* C3: where the label of a checkbox field is written, the field is 'YES' or 'NO'
\* when the token after the label is exactly YES or NO, and null for any other
\* token ('MAYBE', 'YESTERDAY', 'NONE').
C3_OnlyExactYesNo ==
  Parsed =>
    \A k \in DOMAIN CheckboxLabel :
      LET c == ColonOf(CheckboxLabel[k], TRUE, text)
          tok == TokenAfter(text, c)
      IN c # 0 =>
           data["treatment_details"][k] =
             IF tok \in {<<"YES">>, <<"NO">>} THEN StrValue(tok) ELSE None

MultilineLabel ==
  [since_last_treatment |-> "Patient changes since last treatment",
   since_start_of_treatment |-> "Patient changes since the start of treatment"]

\* the newlines after position c that a line beginning with a label follows
LabelLines(t, c) == {e \in (c + 1)..Len(t) : t[e] = NL /\ e + 1 <= Len(t) /\ t[e + 1] \in Labels}

\* the newlines after position c that a line beginning with a non-whitespace
\* character follows
NonBlankLines(t, c) ==
  {e \in (c + 1)..Len(t) : t[e] = NL /\ e + 1 <= Len(t) /\ t[e + 1] \notin {" ", NL}}

Example ==
  <<"Patient changes since last treatment", ":", " ", "feeling", " ", "better", NL,
    "sleeping", " ", "more", NL, "Date", " ", ":", " ", "2024-01-01">>

SingleLine ==
  [patient_name |-> <<"patient_details", "Patient Name", TRUE>>,
   dob |-> <<"patient_details", "DOB", TRUE>>,
   date |-> <<"treatment_details", "Date", TRUE>>,
   last_3_days |->
     <<"patient_changes",
       "Describe any functional changes within the last three days (good or bad)", FALSE>>,
   blood_pressure |-> <<"medical_assistant_data", "Blood Pressure", TRUE>>,
   height |-> <<"medical_assistant_data", "Height", TRUE>>,
   temperature |-> <<"medical_assistant_data", "Temperature", TRUE>>]

\* C5: where the label of a single-line text field is written, the field is the
\* trimmed rest of the label's own line, the empty string when that is blank, and
\* never text of a following line.
C5_ValueFromLabelLine ==
  Parsed =>
    \A k \in DOMAIN SingleLine :
      LET c == ColonOf(SingleLine[k][2], SingleLine[k][3], text)
      IN c # 0 => data[SingleLine[k][1]][k] = StrValue(Strip(RestOfLine(text, c)))

\* C6: where the label of a multiline field is written and no line beginning with
\* a non-whitespace character follows it, the field is the trimmed text from the
\* label to the end of the text, not null.
C6_SpansToEndOfText ==
  Parsed =>
    \A k \in DOMAIN MultilineLabel :
      LET c == ColonOf(MultilineLabel[k], FALSE, text)
      IN (c # 0 /\ NonBlankLines(text, c) = {}) =>
           data["patient_changes"][k] = StrValue(Strip(SubSeq(text, c + 1, Len(text))))

\* C7: parse_ocr_output returns a record for every text: process_file never ends
\* with an exception raised while the text is parsed.
C7_ParseNeverRaises == ~(pc = "raised" /\ err = "ValueError")

====
